---- MODULE Spec2Model ----
(***************************************************************************)
(* The asynchronous job store of stroke-deepisles-demo                     *)
(* (src/stroke_deepisles_demo/api/job_store.py) and the request handler    *)
(* and background task that drive it (api/routes.py).                      *)
(*                                                                         *)
(* A job id is a sequence of one-character strings, a timestamp is a       *)
(* reading of the integer variable clock, and an Optional[...] field is    *)
(* <<>> (None) or <<v>>.                                                   *)
(***************************************************************************)
EXTENDS Integers, Sequences, FiniteSets, TLC

VARIABLES
    jobs,   \* JobStore._jobs: job id -> Job
    ttl,    \* JobStore._ttl, in clock ticks
    clock,  \* what datetime.now() returns
    last,   \* the last store call: its name, job id and outcome
    limit,  \* get_settings().max_concurrent_jobs
    req,    \* the POST /segment requests being handled, one thread each
    tasks,  \* the background tasks: job id -> position in run_segmentation_job
    lock,   \* JobStore._lock: None, or the thread that holds it
    threads,\* the threads inside a store call: position and local variables
    disk,   \* the job ids that have a directory under JobStore._results_dir
    sweep,  \* the cleanup_old_jobs call in progress: position and locals
    sched,  \* JobStore._shutdown, JobStore._cleanup_thread and their threads
    poll    \* the GET /jobs/{job_id} request being handled

vars == <<jobs, ttl, clock, last, limit, req, tasks,
          lock, threads, disk, sweep, sched, poll>>

\* The state of the threads that run inside the store, the disk and the
\* status request.
inside == <<lock, threads, disk, sweep, sched, poll>>

\* What a call of a store method leaves alone.
notStore == <<ttl, clock, limit, req, tasks, inside>>

----------------------------------------------------------------------------
\* Bounds of the model.

\* The clock runs from 0 to MaxTime.
MaxTime == 2

\* The same, in the runs with two jobs in the registry.
MaxPairTime == 1

\* The longest job id of the runs over every id.
MaxIdLen == 2

\* The most cleanup threads a store starts in a run.
MaxLoops == 2

\* The ttl values a store is constructed with, in clock ticks: the tests'
\* timedelta(seconds=0) and a positive one.
TTLs == {0, 1}

----------------------------------------------------------------------------
\* Optional values.

None == <<>>

Some(v) == <<v>>

IsSet(o) == o # None

Get(o) == o[1]

----------------------------------------------------------------------------
\* JobStatus

PENDING == "pending"

RUNNING == "running"

COMPLETED == "completed"

FAILED == "failed"

JobStatus == {PENDING, RUNNING, COMPLETED, FAILED}

----------------------------------------------------------------------------
\* _SAFE_JOB_ID_PATTERN = re.compile(r"^[a-zA-Z0-9_-]+$")

Lower == {"a","b","c","d","e","f","g","h","i","j","k","l","m",
          "n","o","p","q","r","s","t","u","v","w","x","y","z"}

Upper == {"A","B","C","D","E","F","G","H","I","J","K","L","M",
          "N","O","P","Q","R","S","T","U","V","W","X","Y","Z"}

Digit == {"0","1","2","3","4","5","6","7","8","9"}

\* The character class [a-zA-Z0-9_-].
SafeClass == Lower \cup Upper \cup Digit \cup {"_", "-"}

\* The greedy run [a-zA-Z0-9_-]+ from the start of s: the length of the
\* longest prefix of s inside the class.
RECURSIVE ClassRun(_, _)
ClassRun(s, i) ==
    IF i <= Len(s) /\ s[i] \in SafeClass THEN ClassRun(s, i + 1) ELSE i - 1

\* Python's $ (no re.MULTILINE) matches at the end of the string and also
\* just before a newline that is the last character of the string.
DollarAt(s, n) ==
    \/ n = Len(s)
    \/ n = Len(s) - 1 /\ s[Len(s)] = "\n"

\* _SAFE_JOB_ID_PATTERN.match(job_id) is not None. The class holds no
\* newline, so backtracking to a shorter run never helps $ to match.
PatternMatch(s) ==
    LET n == ClassRun(s, 1) IN n >= 1 /\ DollarAt(s, n)

\* JobStore._is_safe_job_id: bool(job_id) and the pattern matches.
is_safe_job_id(job_id) == Len(job_id) > 0 /\ PatternMatch(job_id)

----------------------------------------------------------------------------
\* Inputs of the store operations.

IdA == <<"j", "o", "b", "-", "1">>

IdB == <<"J", "_", "2">>

IdEvil == <<".", ".", "/", "e", "v", "i", "l">>

\* The job ids callers pass: a safe id and a path-traversal id.
JobIds == {IdA, IdEvil}

Cases == {"caseA", "caseB"}

FastModes == {TRUE, FALSE}

\* update_progress arguments: below, inside and above 0..100.
ProgressInputs == {-10, 40, 150}

Messages == {"halfway"}

\* complete_job arguments: result dicts, the empty one among them.
Results == {"{}", "{caseId: caseA, diceScore: 0.9}"}

\* fail_job arguments: error messages, the empty one among them.
Errors == {"", "GPU out of memory"}

\* One character of each kind a job id may be made of: a letter, a digit,
\* underscore, hyphen, and slash, dot, space, newline.
IdAlphabet == {"a", "7", "_", "-", "/", ".", " ", "\n"}

\* Every string over IdAlphabet of MaxIdLen characters at most, the empty
\* one included.
AllIds == UNION {[1..n -> IdAlphabet] : n \in 0..MaxIdLen}

\* The inputs of the runs with two jobs in the registry.
PairIds == {IdA, IdB}

PairCases == {"caseA"}

PairFastModes == {TRUE}

PairProgress == {150}

PairResults == {"{}"}

PairErrors == {"GPU out of memory"}

----------------------------------------------------------------------------
\* Job(id, status=PENDING, case_id, fast_mode, created_at=now) with the
\* dataclass defaults.
NewJob(job_id, case_id, fast_mode, now) ==
    [id |-> job_id,
     status |-> PENDING,
     case_id |-> case_id,
     fast_mode |-> fast_mode,
     created_at |-> now,
     started_at |-> None,
     completed_at |-> None,
     progress |-> 0,
     progress_message |-> "Queued",
     result |-> None,
     error |-> None]

\* Job.elapsed_seconds, read at time now.
elapsed_seconds(job, now) ==
    IF job.started_at = None THEN 0
    ELSE (IF IsSet(job.completed_at) THEN Get(job.completed_at) ELSE now)
         - Get(job.started_at)

\* dict.__setitem__ on the registry.
Put(js, job_id, job) ==
    [k \in DOMAIN js \cup {job_id} |-> IF k = job_id THEN job ELSE js[k]]

\* del self._jobs[k] for every k of ids.
Remove(js, ids) == [k \in DOMAIN js \ ids |-> js[k]]

\* A count that forgets the jobs still waiting to start.
get_active_job_count_running_only(js) ==
    Cardinality({k \in DOMAIN js : js[k].status = RUNNING})

\* JobStore.get_active_job_count
get_active_job_count(js) ==
    Cardinality({k \in DOMAIN js : js[k].status \in {PENDING, RUNNING}})

\* The record kept of a call.
Call(op, job_id, raised, ret) ==
    [op |-> op, id |-> job_id, raised |-> raised, ret |-> ret]

----------------------------------------------------------------------------
\* The registry after each store operation.

\* create_job without the duplicate check under the lock.
create_job_raises_nodup(js, job_id) ==
    IF ~is_safe_job_id(job_id) THEN "ValueError" ELSE "none"

\* JobStore.create_job: what it raises ("none" when it returns the job).
create_job_raises(js, job_id) ==
    IF ~is_safe_job_id(job_id) THEN "ValueError"
    ELSE IF job_id \in DOMAIN js THEN "KeyError"
    ELSE "none"

create_job_jobs(js, job_id, case_id, fast_mode, now) ==
    IF create_job_raises(js, job_id) = "none"
    THEN Put(js, job_id, NewJob(job_id, case_id, fast_mode, now))
    ELSE js

\* A start_job that makes the job it does not find.
start_job_jobs_upsert(js, job_id, now) ==
    Put(js, job_id,
        [(IF job_id \in DOMAIN js THEN js[job_id]
          ELSE NewJob(job_id, "", FALSE, now))
            EXCEPT !.status = RUNNING,
                   !.started_at = Some(now),
                   !.progress = 5,
                   !.progress_message = "Starting inference..."])

\* JobStore.start_job
start_job_jobs(js, job_id, now) ==
    IF job_id \in DOMAIN js
    THEN [js EXCEPT ![job_id] =
            [@ EXCEPT !.status = RUNNING,
                      !.started_at = Some(now),
                      !.progress = 5,
                      !.progress_message = "Starting inference..."]]
    ELSE js

Min(a, b) == IF a < b THEN a ELSE b

Max(a, b) == IF a > b THEN a ELSE b

\* A clamp that forgets the lower end.
ClampUpperOnly(progress) == Min(progress, 100)

\* min(max(progress, 0), 100)
Clamp(progress) == Min(Max(progress, 0), 100)

\* update_progress without the status check.
update_progress_jobs_anystatus(js, job_id, progress, message) ==
    IF job_id \in DOMAIN js
    THEN [js EXCEPT ![job_id] =
            [@ EXCEPT !.progress = Clamp(progress),
                      !.progress_message = message]]
    ELSE js

\* JobStore.update_progress
update_progress_jobs(js, job_id, progress, message) ==
    IF job_id \in DOMAIN js /\ js[job_id].status = RUNNING
    THEN [js EXCEPT ![job_id] =
            [@ EXCEPT !.progress = Clamp(progress),
                      !.progress_message = message]]
    ELSE js

\* complete_job that stores no result.
complete_job_jobs_noresult(js, job_id, result, now) ==
    IF job_id \in DOMAIN js
    THEN [js EXCEPT ![job_id] =
            [@ EXCEPT !.started_at = IF @ = None THEN Some(now) ELSE @,
                      !.status = COMPLETED,
                      !.completed_at = Some(now),
                      !.progress = 100,
                      !.progress_message = "Segmentation complete"]]
    ELSE js

\* complete_job without the back-fill of started_at.
complete_job_jobs_nobackfill(js, job_id, result, now) ==
    IF job_id \in DOMAIN js
    THEN [js EXCEPT ![job_id] =
            [@ EXCEPT !.status = COMPLETED,
                      !.completed_at = Some(now),
                      !.progress = 100,
                      !.progress_message = "Segmentation complete",
                      !.result = Some(result)]]
    ELSE js

\* JobStore.complete_job
complete_job_jobs(js, job_id, result, now) ==
    IF job_id \in DOMAIN js
    THEN [js EXCEPT ![job_id] =
            [@ EXCEPT !.started_at = IF @ = None THEN Some(now) ELSE @,
                      !.status = COMPLETED,
                      !.completed_at = Some(now),
                      !.progress = 100,
                      !.progress_message = "Segmentation complete",
                      !.result = Some(result)]]
    ELSE js

\* fail_job that resets the progress.
fail_job_jobs_progress0(js, job_id, error, now) ==
    IF job_id \in DOMAIN js
    THEN [js EXCEPT ![job_id] =
            [@ EXCEPT !.started_at = IF @ = None THEN Some(now) ELSE @,
                      !.status = FAILED,
                      !.completed_at = Some(now),
                      !.progress = 0,
                      !.progress_message = "Error occurred",
                      !.error = Some(error)]]
    ELSE js

\* JobStore.fail_job
fail_job_jobs(js, job_id, error, now) ==
    IF job_id \in DOMAIN js
    THEN [js EXCEPT ![job_id] =
            [@ EXCEPT !.started_at = IF @ = None THEN Some(now) ELSE @,
                      !.status = FAILED,
                      !.completed_at = Some(now),
                      !.progress_message = "Error occurred",
                      !.error = Some(error)]]
    ELSE js

\* A cleanup that takes the failed jobs only.
expired_ids_failed_only(js, now, t) ==
    {k \in DOMAIN js :
        /\ IsSet(js[k].completed_at)
        /\ js[k].status = FAILED
        /\ (now - Get(js[k].completed_at)) > t}

\* JobStore.cleanup_old_jobs: expired_ids, for now read at the call's start.
expired_ids(js, now, t) ==
    {k \in DOMAIN js :
        IsSet(js[k].completed_at) /\ (now - Get(js[k].completed_at)) > t}

----------------------------------------------------------------------------
\* The store methods: each is one critical section on the registry.

create_job(job_id, case_id, fast_mode) ==
    /\ jobs' = create_job_jobs(jobs, job_id, case_id, fast_mode, clock)
    /\ last' = Call("create_job", job_id, create_job_raises(jobs, job_id), 0)

start_job(job_id) ==
    /\ jobs' = start_job_jobs(jobs, job_id, clock)
    /\ last' = Call("start_job", job_id, "none", 0)

update_progress(job_id, progress, message) ==
    /\ jobs' = update_progress_jobs(jobs, job_id, progress, message)
    /\ last' = Call("update_progress", job_id, "none", 0)

complete_job(job_id, result) ==
    /\ jobs' = complete_job_jobs(jobs, job_id, result, clock)
    /\ last' = Call("complete_job", job_id, "none", 0)

fail_job(job_id, error) ==
    /\ jobs' = fail_job_jobs(jobs, job_id, error, clock)
    /\ last' = Call("fail_job", job_id, "none", 0)

\* The registry phase of cleanup_old_jobs; it returns len(expired_ids).
cleanup_old_jobs ==
    LET expired == expired_ids(jobs, clock, ttl) IN
    /\ jobs' = Remove(jobs, expired)
    /\ last' = Call("cleanup_old_jobs", <<>>, "none", Cardinality(expired))

\* Time passes, up to the reading max.
Tick(max) ==
    /\ clock < max
    /\ clock' = clock + 1
    /\ UNCHANGED <<jobs, ttl, last, limit, req, tasks, inside>>

----------------------------------------------------------------------------
\* The POST /segment requests: none in flight until the API is driven.
Requests == {"r1", "r2"}

NewRequest == [pc |-> "new", job |-> <<>>, resp |-> 0]

\* The threads that call into the store at the same time.
Threads == {"t1", "t2", "t3"}

\* A thread that is in no store call.
IdleThread ==
    [pc |-> "idle", op |-> "none", job_id |-> <<>>, job |-> None,
     progress |-> 0, message |-> "", outcome |-> "none"]

\* No cleanup_old_jobs call is in progress.
NoSweep ==
    [pc |-> "idle", now |-> 0, expired |-> {}, todo |-> {}, raised |-> "none"]

\* Nobody is in stop_cleanup_scheduler.
NoStop == [pc |-> "idle", target |-> 0, timed_out |-> FALSE]

\* The threads that call start_cleanup_scheduler.
Starters == {"s1", "s2"}

\* JobStore.__init__: _cleanup_thread = None, _shutdown = threading.Event();
\* no loop thread exists yet and nobody is in start_cleanup_scheduler.
NoSched ==
    [shutdown |-> FALSE, cleanup_thread |-> None, loops |-> <<>>,
     stop |-> NoStop, start |-> [s \in Starters |-> "idle"]]

\* What get_job_status has put into its answer so far; code 0 before it
\* answers.
NoResponse ==
    [code |-> 0, jobId |-> <<>>, status |-> "", progress |-> 0,
     progressMessage |-> "", elapsedSeconds |-> None, result |-> None,
     error |-> None]

\* No status request is being handled.
NoPoll == [pc |-> "idle", job_id |-> <<>>, resp |-> NoResponse]

\* JobStore.__init__: a free lock, no thread inside, nothing on disk.
InitInside ==
    /\ lock = None
    /\ threads = [t \in Threads |-> IdleThread]
    /\ disk = {}
    /\ sweep = NoSweep
    /\ sched = NoSched
    /\ poll = NoPoll

\* JobStore.__init__: an empty registry, a ttl.
Init ==
    /\ jobs = <<>>
    /\ ttl \in TTLs
    /\ clock = 0
    /\ last = Call("init", <<>>, "none", 0)
    /\ limit = 1
    /\ req = [r \in Requests |-> NewRequest]
    /\ tasks = <<>>
    /\ InitInside

\* Any sequence of store operations by any callers, with arguments from
\* the given sets.
CreateJob(ids, cases, modes) == \E id \in ids, c \in cases, f \in modes :
    create_job(id, c, f) /\ UNCHANGED notStore

StartJob(ids) == \E id \in ids : start_job(id) /\ UNCHANGED notStore

UpdateProgress(ids, progs, msgs) ==
    \E id \in ids, p \in progs, m \in msgs :
        update_progress(id, p, m) /\ UNCHANGED notStore

CompleteJob(ids, results) == \E id \in ids, r \in results :
    complete_job(id, r) /\ UNCHANGED notStore

FailJob(ids, errors) == \E id \in ids, e \in errors :
    fail_job(id, e) /\ UNCHANGED notStore

CleanupOldJobs == cleanup_old_jobs /\ UNCHANGED notStore

\* One job id, every kind of argument.
Next ==
    \/ CreateJob(JobIds, Cases, FastModes)
    \/ StartJob(JobIds)
    \/ UpdateProgress(JobIds, ProgressInputs, Messages)
    \/ CompleteJob(JobIds, Results)
    \/ FailJob(JobIds, Errors)
    \/ CleanupOldJobs
    \/ Tick(MaxTime)

Spec == Init /\ [][Next]_vars

\* Two job ids, one argument of each kind.
NextPair ==
    \/ CreateJob(PairIds, PairCases, PairFastModes)
    \/ StartJob(PairIds)
    \/ UpdateProgress(PairIds, PairProgress, Messages)
    \/ CompleteJob(PairIds, PairResults)
    \/ FailJob(PairIds, PairErrors)
    \/ CleanupOldJobs
    \/ Tick(MaxPairTime)

SpecPair == Init /\ [][NextPair]_vars

----------------------------------------------------------------------------
\* create_job with every id, on a registry holding one job at most.
CreateAnyId ==
    \E id \in AllIds \cup {IdEvil}, c \in PairCases, f \in PairFastModes :
        /\ jobs = <<>> \/ id \in DOMAIN jobs
        /\ create_job(id, c, f)
        /\ UNCHANGED notStore

NextIds == CreateAnyId \/ Tick(MaxPairTime)

SpecIds == Init /\ [][NextIds]_vars

----------------------------------------------------------------------------
\* POST /segment (create_segment_job) and the background task it queues
\* (run_segmentation_job). Each request runs in a thread of its own; the
\* store lock is held only inside each store call.

\* The values of max_concurrent_jobs the API is configured with.
Limits == {1, 2}

\* What uuid.uuid4().hex returns: hex strings, never the same one twice.
UuidPool == {<<"3", "f">>, <<"a", "0">>}

\* body.case_id: the cases of the dataset and one that is not in it.
CaseInputs == Cases \cup {"no-such-case"}

\* The ids handed out so far.
Issued == {req[r].job : r \in Requests}

Respond(r, status, job_id) ==
    req' = [req EXCEPT ![r] = [pc |-> "done", job |-> job_id, resp |-> status]]

\* An admission test that lets one job too many in.
busy_strict(count, max) == count > max

\* store.get_active_job_count() >= get_settings().max_concurrent_jobs
busy(count, max) == count >= max

\* create_segment_job up to the admission check: 503 when the store is busy.
HandlerAdmit(r) ==
    /\ req[r].pc = "new"
    /\ LET count == get_active_job_count(jobs) IN
          /\ IF busy(count, limit)
             THEN Respond(r, 503, <<>>)
             ELSE req' = [req EXCEPT ![r].pc = "admitted"]
          /\ last' = Call("get_active_job_count", <<>>, "none", count)
    /\ UNCHANGED <<jobs, ttl, clock, limit, tasks, inside>>

\* create_segment_job after the admission check: list_case_ids() raises
\* (500) or returns; an unknown case is a 400; otherwise create_job with a
\* fresh uuid, add_task, 202.
HandlerCreate(r) ==
    /\ req[r].pc = "admitted"
    /\ \E listing \in {"returns", "raises"}, case \in CaseInputs,
          f \in PairFastModes, id \in UuidPool \ Issued :
          IF listing = "raises"
          THEN Respond(r, 500, <<>>) /\ UNCHANGED <<jobs, last, tasks>>
          ELSE IF case \notin Cases
          THEN Respond(r, 400, <<>>) /\ UNCHANGED <<jobs, last, tasks>>
          ELSE /\ create_job(id, case, f)
               /\ IF create_job_raises(jobs, id) = "none"
                  THEN Respond(r, 202, id) /\ tasks' = Put(tasks, id, "queued")
                  ELSE Respond(r, 500, <<>>) /\ UNCHANGED tasks
    /\ UNCHANGED <<ttl, clock, limit, inside>>

\* run_segmentation_job: the task returns at once when get_job finds no job.
TaskGet(id) ==
    /\ tasks[id] = "queued"
    /\ tasks' = [tasks EXCEPT ![id] =
                    IF id \in DOMAIN jobs THEN "start" ELSE "done"]
    /\ last' = Call("get_job", id, "none", 0)
    /\ UNCHANGED <<jobs, ttl, clock, limit, req, inside>>

TaskStart(id) ==
    /\ tasks[id] = "start"
    /\ start_job(id)
    /\ tasks' = [tasks EXCEPT ![id] = "p10"]
    /\ UNCHANGED <<ttl, clock, limit, req, inside>>

\* Progress calls whose value after the pipeline is below the one before.
ProgressSteps_dip ==
    { <<"p10", 10, "Loading case data...", "p20">>,
      <<"p20", 20, "Staging files for DeepISLES...", "p30">>,
      <<"p30", 30, "Running DeepISLES inference...", "pipeline">>,
      <<"p85", 25, "Computing metrics...", "p95">>,
      <<"p95", 95, "Preparing results...", "build">> }

\* The progress calls of the task, in program order: position, value,
\* message, next position.
ProgressSteps ==
    { <<"p10", 10, "Loading case data...", "p20">>,
      <<"p20", 20, "Staging files for DeepISLES...", "p30">>,
      <<"p30", 30, "Running DeepISLES inference...", "pipeline">>,
      <<"p85", 85, "Computing metrics...", "p95">>,
      <<"p95", 95, "Preparing results...", "build">> }

TaskProgress(id) ==
    \E st \in ProgressSteps :
        /\ tasks[id] = st[1]
        /\ update_progress(id, st[2], st[3])
        /\ tasks' = [tasks EXCEPT ![id] = st[4]]
        /\ UNCHANGED <<ttl, clock, limit, req, inside>>

\* run_pipeline_on_case returns or raises.
TaskPipeline(id) ==
    /\ tasks[id] = "pipeline"
    /\ \E next \in {"p85", "fail"} : tasks' = [tasks EXCEPT ![id] = next]
    /\ UNCHANGED <<jobs, ttl, clock, last, limit, req, inside>>

\* Building result_data succeeds or raises (result.input_files["dwi"]).
TaskBuild(id) ==
    /\ tasks[id] = "build"
    /\ \E next \in {"complete", "fail"} : tasks' = [tasks EXCEPT ![id] = next]
    /\ UNCHANGED <<jobs, ttl, clock, last, limit, req, inside>>

TaskComplete(id) ==
    /\ tasks[id] = "complete"
    /\ \E r \in Results : complete_job(id, r)
    /\ tasks' = [tasks EXCEPT ![id] = "done"]
    /\ UNCHANGED <<ttl, clock, limit, req, inside>>

\* A task that logs the exception and returns.
TaskFail_silent(id) ==
    /\ tasks[id] = "fail"
    /\ tasks' = [tasks EXCEPT ![id] = "done"]
    /\ UNCHANGED <<jobs, last, ttl, clock, limit, req, inside>>

\* except Exception: store.fail_job(job_id, "Segmentation failed")
TaskFail(id) ==
    /\ tasks[id] = "fail"
    /\ fail_job(id, "Segmentation failed")
    /\ tasks' = [tasks EXCEPT ![id] = "done"]
    /\ UNCHANGED <<ttl, clock, limit, req, inside>>

InitApi ==
    /\ jobs = <<>>
    /\ ttl \in TTLs
    /\ clock = 0
    /\ last = Call("init", <<>>, "none", 0)
    /\ limit \in Limits
    /\ req = [r \in Requests |-> NewRequest]
    /\ tasks = <<>>
    /\ InitInside

NextApi ==
    \/ \E r \in Requests : HandlerAdmit(r)
    \/ \E r \in Requests : HandlerCreate(r)
    \/ \E id \in DOMAIN tasks : TaskGet(id)
    \/ \E id \in DOMAIN tasks : TaskStart(id)
    \/ \E id \in DOMAIN tasks : TaskProgress(id)
    \/ \E id \in DOMAIN tasks : TaskPipeline(id)
    \/ \E id \in DOMAIN tasks : TaskBuild(id)
    \/ \E id \in DOMAIN tasks : TaskComplete(id)
    \/ \E id \in DOMAIN tasks : TaskFail(id)

SpecApi == InitApi /\ [][NextApi]_vars

\* The steps of the background task of job id.
TaskStep(id) ==
    /\ id \in DOMAIN tasks
    /\ \/ TaskGet(id)
       \/ TaskStart(id)
       \/ TaskProgress(id)
       \/ TaskPipeline(id)
       \/ TaskBuild(id)
       \/ TaskComplete(id)
       \/ TaskFail(id)

\* The event loop runs every background task it was given (FastAPI
\* BackgroundTasks), and run_pipeline_on_case returns or raises.
TasksRun == \A id \in UuidPool : WF_vars(TaskStep(id))

SpecApiFair == SpecApi /\ TasksRun

----------------------------------------------------------------------------
\* Store calls running in several threads at once. What a thread does
\* before 'with self._lock:' is a step of its own, and inside the lock
\* every read and every write of the registry is one.

\* The ids the threads create.
ThreadIds == PairIds \cup {IdEvil}

\* The progress values and messages the threads submit.
ThreadProgress == {40, 150}

ThreadMessages == {"loading", "running"}

\* A lock that excludes nobody.
lock_ignored(l) == TRUE

\* threading.RLock.acquire lets a thread in when no other thread holds it.
lock_free(l) == l = None

\* create_job up to the lock: ValueError for an unsafe id, else the Job
\* is constructed, with created_at read here.
ThreadCreateBegin(t) ==
    /\ threads[t].pc = "idle"
    /\ \E id \in ThreadIds, c \in PairCases, f \in PairFastModes :
          threads' = [threads EXCEPT ![t] =
              IF is_safe_job_id(id)
              THEN [IdleThread EXCEPT !.pc = "built", !.op = "create_job",
                                      !.job_id = id,
                                      !.job = Some(NewJob(id, c, f, clock))]
              ELSE [IdleThread EXCEPT !.pc = "done", !.op = "create_job",
                                      !.job_id = id,
                                      !.outcome = "ValueError"]]
    /\ UNCHANGED <<jobs, ttl, clock, last, limit, req, tasks,
                   lock, disk, sweep, sched, poll>>

\* update_progress(job_id, progress, message) is called.
ThreadUpdateBegin(t) ==
    /\ threads[t].pc = "idle"
    /\ \E id \in {IdA}, p \in ThreadProgress, m \in ThreadMessages :
          threads' = [threads EXCEPT ![t] =
              [IdleThread EXCEPT !.pc = "called", !.op = "update_progress",
                                 !.job_id = id, !.progress = p,
                                 !.message = m]]
    /\ UNCHANGED <<jobs, ttl, clock, last, limit, req, tasks,
                   lock, disk, sweep, sched, poll>>

\* with self._lock:
ThreadAcquire(t) ==
    /\ threads[t].pc \in {"built", "called"}
    /\ lock_free(lock)
    /\ lock' = Some(t)
    /\ threads' = [threads EXCEPT ![t].pc = "locked"]
    /\ UNCHANGED <<jobs, ttl, clock, last, limit, req, tasks,
                   disk, sweep, sched, poll>>

\* create_job: if job_id in self._jobs: raise KeyError (the lock is
\* released on the way out).
ThreadCreateCheck(t) ==
    /\ threads[t].pc = "locked"
    /\ threads[t].op = "create_job"
    /\ IF threads[t].job_id \in DOMAIN jobs
       THEN /\ threads' = [threads EXCEPT ![t].pc = "done",
                                          ![t].outcome = "KeyError"]
            /\ lock' = None
       ELSE /\ threads' = [threads EXCEPT ![t].pc = "checked"]
            /\ UNCHANGED lock
    /\ UNCHANGED <<jobs, ttl, clock, last, limit, req, tasks,
                   disk, sweep, sched, poll>>

\* create_job: self._jobs[job_id] = job, the lock is released, the job
\* is returned.
ThreadCreateStore(t) ==
    /\ threads[t].pc = "checked"
    /\ threads[t].op = "create_job"
    /\ jobs' = Put(jobs, threads[t].job_id, Get(threads[t].job))
    /\ lock' = None
    /\ threads' = [threads EXCEPT ![t].pc = "done", ![t].outcome = "returned"]
    /\ UNCHANGED <<ttl, clock, last, limit, req, tasks,
                   disk, sweep, sched, poll>>

\* update_progress: job = self._jobs.get(job_id);
\* if job and job.status == JobStatus.RUNNING
ThreadUpdateCheck(t) ==
    /\ threads[t].pc = "locked"
    /\ threads[t].op = "update_progress"
    /\ IF /\ threads[t].job_id \in DOMAIN jobs
          /\ jobs[threads[t].job_id].status = RUNNING
       THEN /\ threads' = [threads EXCEPT ![t].pc = "checked"]
            /\ UNCHANGED lock
       ELSE /\ threads' = [threads EXCEPT ![t].pc = "done",
                                          ![t].outcome = "returned"]
            /\ lock' = None
    /\ UNCHANGED <<jobs, ttl, clock, last, limit, req, tasks,
                   disk, sweep, sched, poll>>

\* update_progress: job.progress = min(max(progress, 0), 100). The job
\* object is written, in the registry or not.
ThreadUpdateProgress(t) ==
    /\ threads[t].pc = "checked"
    /\ threads[t].op = "update_progress"
    /\ jobs' = IF threads[t].job_id \in DOMAIN jobs
               THEN [jobs EXCEPT ![threads[t].job_id].progress =
                                        Clamp(threads[t].progress)]
               ELSE jobs
    /\ threads' = [threads EXCEPT ![t].pc = "wrote_progress"]
    /\ UNCHANGED <<ttl, clock, last, limit, req, tasks,
                   lock, disk, sweep, sched, poll>>

\* update_progress: job.progress_message = message, and the lock is
\* released.
ThreadUpdateMessage(t) ==
    /\ threads[t].pc = "wrote_progress"
    /\ jobs' = IF threads[t].job_id \in DOMAIN jobs
               THEN [jobs EXCEPT ![threads[t].job_id].progress_message =
                                        threads[t].message]
               ELSE jobs
    /\ lock' = None
    /\ threads' = [threads EXCEPT ![t].pc = "done", ![t].outcome = "returned"]
    /\ UNCHANGED <<ttl, clock, last, limit, req, tasks,
                   disk, sweep, sched, poll>>

\* JobStore.__len__
len_store(js) == Cardinality(DOMAIN js)

\* create_job in every thread, on a store that starts empty.
NextCreators ==
    \/ \E t \in Threads : ThreadCreateBegin(t)
    \/ \E t \in Threads : ThreadAcquire(t)
    \/ \E t \in Threads : ThreadCreateCheck(t)
    \/ \E t \in Threads : ThreadCreateStore(t)
    \/ Tick(MaxPairTime)

SpecCreators == Init /\ [][NextCreators]_vars

\* A whole store call of another caller: it gets the lock first.
Locked(call) == lock_free(lock) /\ call

\* update_progress in every thread, on a job that other callers create
\* and start.
NextUpdaters ==
    \/ Locked(CreateJob({IdA}, PairCases, PairFastModes))
    \/ Locked(StartJob({IdA}))
    \/ \E t \in Threads : ThreadUpdateBegin(t)
    \/ \E t \in Threads : ThreadAcquire(t)
    \/ \E t \in Threads : ThreadUpdateCheck(t)
    \/ \E t \in Threads : ThreadUpdateProgress(t)
    \/ \E t \in Threads : ThreadUpdateMessage(t)

SpecUpdaters == Init /\ [][NextUpdaters]_vars

----------------------------------------------------------------------------
\* cleanup_old_jobs step by step: the clock is read before the lock, the
\* registry is swept inside it, and the result directories are deleted
\* after it, one expired id at a time. Directories are plain directories
\* (no symbolic links).

\* job_id split at its slashes.
RECURSIVE SplitPath(_)
SplitPath(s) ==
    IF s = <<>> THEN << <<>> >>
    ELSE LET rest == SplitPath(Tail(s)) IN
         IF Head(s) = "/" THEN << <<>> >> \o rest
         ELSE << <<Head(s)>> \o Head(rest) >> \o Tail(rest)

\* Path.resolve, relative to the results directory: how deep below it the
\* components lead, -1 once they have led above it.
RECURSIVE Resolve(_, _)
Resolve(parts, depth) ==
    IF parts = <<>> THEN depth
    ELSE IF Head(parts) = <<".", ".">>
         THEN (IF depth <= 0 THEN -1 ELSE Resolve(Tail(parts), depth - 1))
    ELSE IF Head(parts) \in {<<>>, <<".">>}
         THEN Resolve(Tail(parts), depth)
    ELSE Resolve(Tail(parts), depth + 1)

\* (self._results_dir / job_id).resolve().is_relative_to(base_dir): an
\* absolute job_id replaces the results directory altogether.
is_relative_to_base(job_id) ==
    /\ ~(job_id # <<>> /\ Head(job_id) = "/")
    /\ Resolve(SplitPath(job_id), 0) >= 0

\* How shutil.rmtree ends.
RmtreeOutcomes == {"removed", "OSError"}

\* A cleanup that lets the OSError of rmtree through.
except_nothing(e) == FALSE

\* except OSError as e
except_OSError(e) == e = "OSError"

\* The pipeline of a job, or a test, makes results_dir/<job_id>.
MakeResultDir ==
    /\ \E id \in DOMAIN jobs \ disk : disk' = disk \cup {id}
    /\ UNCHANGED <<jobs, ttl, clock, last, limit, req, tasks,
                   lock, threads, sweep, sched, poll>>

\* now = datetime.now(); expired_ids = []
SweepBegin ==
    /\ sweep.pc = "idle"
    /\ sweep' = [NoSweep EXCEPT !.pc = "called", !.now = clock]
    /\ UNCHANGED <<jobs, ttl, clock, last, limit, req, tasks,
                   lock, threads, disk, sched, poll>>

\* with self._lock: the expired ids are collected and deleted.
SweepRegistry ==
    /\ sweep.pc = "called"
    /\ lock_free(lock)
    /\ LET expired == expired_ids(jobs, sweep.now, ttl) IN
          /\ jobs' = Remove(jobs, expired)
          /\ sweep' = [sweep EXCEPT !.pc = "files", !.expired = expired,
                                    !.todo = expired]
    /\ UNCHANGED <<ttl, clock, last, limit, req, tasks,
                   lock, threads, disk, sched, poll>>

\* One round of 'for job_id in expired_ids', in any order: the id is
\* skipped when unsafe or outside the results directory; an existing
\* directory is handed to shutil.rmtree.
SweepFile ==
    /\ sweep.pc = "files"
    /\ \E id \in sweep.todo, outcome \in RmtreeOutcomes :
          IF ~is_safe_job_id(id) \/ ~is_relative_to_base(id) \/ id \notin disk
          THEN /\ sweep' = [sweep EXCEPT !.todo = @ \ {id}]
               /\ UNCHANGED <<disk, last>>
          ELSE IF outcome = "removed"
          THEN /\ disk' = disk \ {id}
               /\ sweep' = [sweep EXCEPT !.todo = @ \ {id}]
               /\ UNCHANGED last
          ELSE IF except_OSError(outcome)
          THEN /\ sweep' = [sweep EXCEPT !.todo = @ \ {id}]
               /\ UNCHANGED <<disk, last>>
          ELSE /\ sweep' = [sweep EXCEPT !.pc = "idle", !.raised = outcome]
               /\ last' = Call("cleanup_old_jobs", <<>>, outcome, 0)
               /\ UNCHANGED disk
    /\ UNCHANGED <<jobs, ttl, clock, limit, req, tasks,
                   lock, threads, sched, poll>>

\* return len(expired_ids)
SweepReturn ==
    /\ sweep.pc = "files"
    /\ sweep.todo = {}
    /\ sweep' = [sweep EXCEPT !.pc = "idle"]
    /\ last' = Call("cleanup_old_jobs", <<>>, "none",
                    Cardinality(sweep.expired))
    /\ UNCHANGED <<jobs, ttl, clock, limit, req, tasks,
                   lock, threads, disk, sched, poll>>

\* An id that ends in a newline.
IdNewline == <<"a", "\n">>

\* The ids of the callers next to the cleanup.
SweepIds == {IdA, IdNewline}

\* One cleanup_old_jobs call at a time, next to callers that create and
\* complete jobs and make their directories.
NextSweep ==
    \/ Locked(CreateJob(SweepIds, PairCases, PairFastModes))
    \/ Locked(CompleteJob(SweepIds, PairResults))
    \/ MakeResultDir
    \/ SweepBegin
    \/ SweepRegistry
    \/ SweepFile
    \/ SweepReturn
    \/ Tick(MaxPairTime)

SpecSweep == Init /\ [][NextSweep]_vars

----------------------------------------------------------------------------
\* GET /jobs/{job_id} (get_job_status). get_job returns the Job object of
\* the registry under the lock; the handler then reads its fields without
\* the lock, while the background task may be writing them.

\* The payloads complete_job is given: those of the task, the empty dict,
\* and a dict without the fields of SegmentResponse.
StatusResults == Results \cup {"{result: data}"}

\* bool(job.result), bool(job.error)
truthy_result(r) == IsSet(r) /\ Get(r) # "{}"

truthy_error(e) == IsSet(e) /\ Get(e) # ""

\* SegmentResponse(**job.result) raises a ValidationError when a required
\* field is missing.
validation_raises(r) == r \notin {"{caseId: caseA, diceScore: 0.9}"}

\* JobStatus.value
status_value(status) ==
    CASE status = PENDING -> "pending"
      [] status = RUNNING -> "running"
      [] status = COMPLETED -> "completed"
      [] status = FAILED -> "failed"

\* store.get_job(job_id), and HTTPException(404) when it returns None.
GetLookup(ids) ==
    /\ poll.pc \in {"idle", "done"}
    /\ lock_free(lock)
    /\ \E id \in ids :
          /\ poll' = IF id \in DOMAIN jobs
                     THEN [pc |-> "found", job_id |-> id, resp |-> NoResponse]
                     ELSE [pc |-> "done", job_id |-> id,
                           resp |-> [NoResponse EXCEPT !.code = 404]]
          /\ last' = Call("get_job", id, "none", 0)
    /\ UNCHANGED <<jobs, ttl, clock, limit, req, tasks,
                   lock, threads, disk, sweep, sched>>

\* response = JobStatusResponse(jobId=..., status=..., ...,
\* elapsedSeconds=round(job.elapsed_seconds, 2) if job.started_at else
\* None, result=None, error=None); elapsed times are whole ticks.
GetBuild ==
    /\ poll.pc = "found"
    /\ LET job == jobs[poll.job_id] IN
          poll' = [poll EXCEPT
              !.pc = "built",
              !.resp = [code |-> 200,
                        jobId |-> job.id,
                        status |-> status_value(job.status),
                        progress |-> job.progress,
                        progressMessage |-> job.progress_message,
                        elapsedSeconds |->
                            IF IsSet(job.started_at)
                            THEN Some(elapsed_seconds(job, clock))
                            ELSE None,
                        result |-> None,
                        error |-> None]]
    /\ UNCHANGED <<jobs, ttl, clock, last, limit, req, tasks,
                   lock, threads, disk, sweep, sched>>

\* if job.status == JobStatus.COMPLETED and job.result:
\*     response.result = SegmentResponse(**job.result)
\* An exception that leaves the handler is answered 500.
GetResult ==
    /\ poll.pc = "built"
    /\ LET job == jobs[poll.job_id] IN
          poll' = IF job.status = COMPLETED /\ truthy_result(job.result)
                  THEN IF validation_raises(Get(job.result))
                       THEN [poll EXCEPT !.pc = "done",
                                         !.resp = [NoResponse EXCEPT
                                                       !.code = 500]]
                       ELSE [poll EXCEPT !.pc = "result_done",
                                         !.resp.result = job.result]
                  ELSE [poll EXCEPT !.pc = "result_done"]
    /\ UNCHANGED <<jobs, ttl, clock, last, limit, req, tasks,
                   lock, threads, disk, sweep, sched>>

\* if job.status == JobStatus.FAILED and job.error:
\*     response.error = job.error
\* return response
GetError ==
    /\ poll.pc = "result_done"
    /\ LET job == jobs[poll.job_id] IN
          poll' = IF job.status = FAILED /\ truthy_error(job.error)
                  THEN [poll EXCEPT !.pc = "done", !.resp.error = job.error]
                  ELSE [poll EXCEPT !.pc = "done"]
    /\ UNCHANGED <<jobs, ttl, clock, last, limit, req, tasks,
                   lock, threads, disk, sweep, sched>>

\* A client polling one job and an id that was never created, while
\* other callers drive the job through the store.
NextStatus ==
    \/ Locked(CreateJob({IdA}, PairCases, PairFastModes))
    \/ Locked(StartJob({IdA}))
    \/ Locked(CompleteJob({IdA}, StatusResults))
    \/ Locked(FailJob({IdA}, Errors))
    \/ GetLookup(PairIds)
    \/ GetBuild
    \/ GetResult
    \/ GetError
    \/ Tick(MaxPairTime)

SpecStatus == Init /\ [][NextStatus]_vars

----------------------------------------------------------------------------
\* The cleanup scheduler. sched.loops holds every 'job-cleanup' thread the
\* store has started, by what it is doing: "waiting" in
\* self._shutdown.wait(CLEANUP_INTERVAL_SECONDS), "pass" between the
\* return of wait and the end of cleanup_old_jobs, or "exited";
\* sched.cleanup_thread is the index of the thread self._cleanup_thread
\* refers to.

\* start_cleanup_scheduler: if self._cleanup_thread is not None: return.
\* The test is made without the lock.
StartCheck(s) ==
    /\ sched.start[s] = "idle"
    /\ IF IsSet(sched.cleanup_thread)
       THEN /\ UNCHANGED sched
            /\ last' = Call("start_cleanup_scheduler", <<>>, "none", 0)
       ELSE /\ sched' = [sched EXCEPT !.start[s] = "checked"]
            /\ UNCHANGED last
    /\ UNCHANGED <<jobs, ttl, clock, limit, req, tasks,
                   lock, threads, disk, sweep, poll>>

\* start_cleanup_scheduler: self._cleanup_thread = threading.Thread(...);
\* self._cleanup_thread.start()
StartSpawn(s) ==
    /\ sched.start[s] = "checked"
    /\ Len(sched.loops) < MaxLoops
    /\ sched' = [sched EXCEPT
                    !.loops = Append(@, "waiting"),
                    !.cleanup_thread = Some(Len(sched.loops) + 1),
                    !.start[s] = "idle"]
    /\ last' = Call("start_cleanup_scheduler", <<>>, "none", 0)
    /\ UNCHANGED <<jobs, ttl, clock, limit, req, tasks,
                   lock, threads, disk, sweep, poll>>

\* stop_cleanup_scheduler: self._shutdown.set()
StopSet ==
    /\ sched.stop.pc = "idle"
    /\ sched' = [sched EXCEPT !.shutdown = TRUE,
                              !.stop = [NoStop EXCEPT !.pc = "set"]]
    /\ UNCHANGED <<jobs, ttl, clock, last, limit, req, tasks,
                   lock, threads, disk, sweep, poll>>

\* stop_cleanup_scheduler: if self._cleanup_thread: ...; without a thread
\* the call returns.
StopRead ==
    /\ sched.stop.pc = "set"
    /\ IF IsSet(sched.cleanup_thread)
       THEN /\ sched' = [sched EXCEPT
                            !.stop.pc = "joining",
                            !.stop.target = Get(sched.cleanup_thread)]
            /\ UNCHANGED last
       ELSE /\ sched' = [sched EXCEPT !.stop.pc = "idle"]
            /\ last' = Call("stop_cleanup_scheduler", <<>>, "none", 0)
    /\ UNCHANGED <<jobs, ttl, clock, limit, req, tasks,
                   lock, threads, disk, sweep, poll>>

\* Thread.join(timeout=5) returns when the thread has exited or the
\* timeout has elapsed.
join_returns(state, timeout) == state = "exited" \/ timeout

\* stop_cleanup_scheduler: self._cleanup_thread.join(timeout=5);
\* self._cleanup_thread = None
StopJoin ==
    /\ sched.stop.pc = "joining"
    /\ \E timeout \in BOOLEAN :
          /\ join_returns(sched.loops[sched.stop.target], timeout)
          /\ sched' = [sched EXCEPT !.cleanup_thread = None,
                                    !.stop.pc = "idle",
                                    !.stop.timed_out = timeout]
    /\ last' = Call("stop_cleanup_scheduler", <<>>, "none", 0)
    /\ UNCHANGED <<jobs, ttl, clock, limit, req, tasks,
                   lock, threads, disk, sweep, poll>>

\* cleanup_loop: while not self._shutdown.wait(CLEANUP_INTERVAL_SECONDS):
\* wait returns True once the event is set and the thread ends, or False
\* when the interval has elapsed and a pass begins.
LoopWake(i) ==
    /\ sched.loops[i] = "waiting"
    /\ sched' = [sched EXCEPT !.loops[i] =
                    IF sched.shutdown THEN "exited" ELSE "pass"]
    /\ UNCHANGED <<jobs, ttl, clock, last, limit, req, tasks,
                   lock, threads, disk, sweep, poll>>

\* How a cleanup_old_jobs call of the loop ends: it returns, or something
\* other than the OSError of rmtree is raised while the directories are
\* deleted (result_dir.exists() on a directory that may not be read).
PassOutcomes == {"none", "PermissionError"}

\* A loop without the except clause.
loop_except_nothing(e) == FALSE

\* cleanup_loop: except Exception
except_Exception(e) == e # "none"

\* cleanup_loop: try: self.cleanup_old_jobs() except Exception: ..., and
\* back to the wait. The registry has been swept when the call raises;
\* an exception that is not caught ends the thread.
LoopPass(i) ==
    /\ sched.loops[i] = "pass"
    /\ lock_free(lock)
    /\ \E e \in PassOutcomes :
          LET expired == expired_ids(jobs, clock, ttl) IN
          /\ jobs' = Remove(jobs, expired)
          /\ last' = Call("cleanup_old_jobs", <<>>, e,
                          IF e = "none" THEN Cardinality(expired) ELSE 0)
          /\ sched' = [sched EXCEPT !.loops[i] =
                          IF e = "none" \/ except_Exception(e)
                          THEN "waiting" ELSE "exited"]
    /\ UNCHANGED <<ttl, clock, limit, req, tasks,
                   lock, threads, disk, sweep, poll>>

\* A store whose scheduler is started by two threads and stopped by one,
\* while callers create and complete a job.
NextSched ==
    \/ \E s \in Starters : StartCheck(s)
    \/ \E s \in Starters : StartSpawn(s)
    \/ StopSet
    \/ StopRead
    \/ StopJoin
    \/ \E i \in DOMAIN sched.loops : LoopWake(i)
    \/ \E i \in DOMAIN sched.loops : LoopPass(i)
    \/ Locked(CreateJob({IdA}, PairCases, PairFastModes))
    \/ Locked(CompleteJob({IdA}, PairResults))
    \/ Tick(MaxPairTime)

SpecSched == Init /\ [][NextSched]_vars

\* The cleanup thread is an operating-system thread: it is not held up
\* for ever.
LoopRuns ==
    \A i \in 1..MaxLoops :
        WF_vars(i \in DOMAIN sched.loops /\ (LoopWake(i) \/ LoopPass(i)))

SpecSchedFair == SpecSched /\ LoopRuns

----------------------------------------------------------------------------
\* The properties of the store.

Terminal == {COMPLETED, FAILED}

\* The jobs that are in the registry before and after a step.
Kept == DOMAIN jobs \cap DOMAIN jobs'

\* C1: a job's status never leaves COMPLETED or FAILED, and a RUNNING job
\* never goes back to PENDING, whatever store operation is called.
C1_StatusNeverLeavesTerminal ==
    [][\A k \in Kept :
          /\ jobs[k].status \in Terminal => jobs'[k].status = jobs[k].status
          /\ jobs[k].status = RUNNING => jobs'[k].status # PENDING]_vars

\* C2: in every state, a job has a result exactly when it is COMPLETED and
\* an error exactly when it is FAILED.
C2_ResultIffCompleted ==
    \A k \in DOMAIN jobs :
        /\ IsSet(jobs[k].result) <=> jobs[k].status = COMPLETED
        /\ IsSet(jobs[k].error) <=> jobs[k].status = FAILED

\* job with only its progress and progress_message replaced.
WithProgress(job, progress, message) ==
    [job EXCEPT !.progress = progress, !.progress_message = message]

\* C3: update_progress changes a job only when the job exists and is
\* RUNNING, and then only its progress and progress_message; on a PENDING,
\* COMPLETED or FAILED job, or an unknown id, it changes nothing.
C3_ProgressOnlyWhenRunning ==
    [][\A id \in JobIds, p \in ProgressInputs, m \in Messages :
          (last'.op = "update_progress" /\ update_progress(id, p, m)) =>
              IF id \in DOMAIN jobs /\ jobs[id].status = RUNNING
              THEN /\ DOMAIN jobs' = DOMAIN jobs
                   /\ \A k \in DOMAIN jobs \ {id} : jobs'[k] = jobs[k]
                   /\ jobs'[id] = WithProgress(jobs[id], jobs'[id].progress, m)
              ELSE jobs' = jobs]_vars

\* A progress call has arrived for a job that complete_job had finished,
\* and the job still shows what complete_job stored.
C3_Witness ==
    /\ last.op = "update_progress"
    /\ last.id \in DOMAIN jobs
    /\ jobs[last.id].status = COMPLETED
    /\ jobs[last.id].progress = 100
    /\ jobs[last.id].progress_message = "Segmentation complete"

\* C6: whatever a step removes from the registry is a COMPLETED or FAILED
\* job whose completed_at lies more than ttl back; a PENDING or RUNNING job
\* is never removed.
C6_CleanupOnlyTerminal ==
    [][\A k \in DOMAIN jobs \ DOMAIN jobs' :
          /\ jobs[k].status \in Terminal
          /\ IsSet(jobs[k].completed_at)
          /\ clock - Get(jobs[k].completed_at) > ttl]_vars

\* The jobs whose completed_at is set.
Finished(js) == {k \in DOMAIN js : IsSet(js[k].completed_at)}

\* C7: with a ttl of 0, cleanup_old_jobs removes every job whose
\* completed_at is set, also one completed at the very clock reading of the
\* call, and returns their number.
C7_ZeroTtlRemovesAllFinished ==
    [][(ttl = 0 /\ cleanup_old_jobs) =>
          /\ DOMAIN jobs' = DOMAIN jobs \ Finished(jobs)
          /\ last'.ret = Cardinality(Finished(jobs))]_vars

\* A non-empty string of letters, digits, hyphens and underscores.
OnlySafeChars(id) == Len(id) > 0 /\ \A i \in 1..Len(id) : id[i] \in SafeClass

\* C8: create_job raises ValueError for every id that is empty or holds a
\* character other than a letter, a digit, a hyphen or an underscore, and
\* no such id ever reaches the registry.
C8_UnsafeIdRejected ==
    /\ (last.op = "create_job" /\ ~OnlySafeChars(last.id))
            => last.raised = "ValueError"
    /\ \A k \in DOMAIN jobs : OnlySafeChars(k)

\* C9: create_job with an id that is in the registry raises KeyError and
\* leaves the whole registry, the existing record included, as it was; a
\* record is always stored under its own id.
C9_DuplicateRejected ==
    /\ [](\A k \in DOMAIN jobs : jobs[k].id = k)
    /\ [][\A id \in PairIds, c \in PairCases, f \in PairFastModes :
            (/\ last'.op = "create_job"
             /\ id \in DOMAIN jobs
             /\ create_job(id, c, f))
                => last'.raised = "KeyError" /\ jobs' = jobs]_vars

\* create_job was called with the id of a job that has since been started
\* or finished, next to another job.
C9_Witness ==
    /\ last.op = "create_job"
    /\ last.raised = "KeyError"
    /\ jobs[last.id].status # PENDING
    /\ Cardinality(DOMAIN jobs) = 2

\* p brought into 0..100, spelled out.
InRange(p) == IF p < 0 THEN 0 ELSE IF p > 100 THEN 100 ELSE p

\* C10: every job's progress is in 0..100: create_job stores 0, start_job 5,
\* complete_job 100, and update_progress on a RUNNING job stores p brought
\* into 0..100, without raising.
C10_ProgressInRange ==
    /\ [](\A k \in DOMAIN jobs : jobs[k].progress \in 0..100)
    /\ [][\A id \in JobIds :
            /\ \A c \in Cases, f \in FastModes :
                  (/\ last'.op = "create_job"
                   /\ last'.raised = "none"
                   /\ create_job(id, c, f))
                      => jobs'[id].progress = 0
            /\ (/\ last'.op = "start_job"
                /\ id \in DOMAIN jobs
                /\ start_job(id))
                      => jobs'[id].progress = 5
            /\ \A r \in Results :
                  (/\ last'.op = "complete_job"
                   /\ id \in DOMAIN jobs
                   /\ complete_job(id, r))
                      => jobs'[id].progress = 100
            /\ \A p \in ProgressInputs, m \in Messages :
                  (/\ last'.op = "update_progress"
                   /\ id \in DOMAIN jobs
                   /\ jobs[id].status = RUNNING
                   /\ update_progress(id, p, m))
                      => /\ jobs'[id].progress = InRange(p)
                         /\ last'.raised = "none"]_vars

\* update_progress was last called on a RUNNING job, which shows 0: the
\* call was given -10 (start_job had stored 5).
C10_Witness ==
    /\ last.op = "update_progress"
    /\ last.id \in DOMAIN jobs
    /\ jobs[last.id].status = RUNNING
    /\ jobs[last.id].progress = 0
    /\ jobs[last.id].progress_message \in Messages

\* C11: complete_job(id, result) on a PENDING or RUNNING job of the
\* registry leaves the job COMPLETED, at progress 100 with the message
\* 'Segmentation complete', with completed_at set and the result passed.
C11_CompleteJobStores ==
    [][\A id \in PairIds, r \in PairResults :
          (/\ last'.op = "complete_job"
           /\ id \in DOMAIN jobs
           /\ jobs[id].status \in {PENDING, RUNNING}
           /\ complete_job(id, r))
              => /\ id \in DOMAIN jobs'
                 /\ jobs'[id].status = COMPLETED
                 /\ jobs'[id].progress = 100
                 /\ jobs'[id].progress_message = "Segmentation complete"
                 /\ IsSet(jobs'[id].completed_at)
                 /\ jobs'[id].result = Some(r)]_vars

\* complete_job was the last call, on a job started at 0 and completed
\* later, that never failed; it stored the empty result.
C11_Witness ==
    /\ last.op = "complete_job"
    /\ last.id \in DOMAIN jobs
    /\ jobs[last.id].status = COMPLETED
    /\ jobs[last.id].started_at = Some(0)
    /\ jobs[last.id].completed_at = Some(1)
    /\ jobs[last.id].error = None
    /\ jobs[last.id].result = Some("{}")

\* C12: fail_job(id, msg) on a job of the registry, whatever its status,
\* leaves the job FAILED with error msg and completed_at set, and its
\* progress as it was before the call.
C12_FailJobStores ==
    [][\A id \in JobIds, e \in Errors :
          (/\ last'.op = "fail_job"
           /\ id \in DOMAIN jobs
           /\ fail_job(id, e))
              => /\ id \in DOMAIN jobs'
                 /\ jobs'[id].status = FAILED
                 /\ jobs'[id].error = Some(e)
                 /\ IsSet(jobs'[id].completed_at)
                 /\ jobs'[id].progress = jobs[id].progress]_vars

\* fail_job was the last call, on a job that update_progress had brought
\* to 40: the job is FAILED and still at 40.
C12_Witness ==
    /\ last.op = "fail_job"
    /\ last.id \in DOMAIN jobs
    /\ jobs[last.id].status = FAILED
    /\ jobs[last.id].progress = 40
    /\ jobs[last.id].error = Some("GPU out of memory")
    /\ jobs[last.id].result = None

\* started_at is set, not after completed_at, and the elapsed time read at
\* now is not negative.
StartedBeforeCompleted(job, now) ==
    /\ IsSet(job.started_at)
    /\ IsSet(job.completed_at)
    /\ Get(job.started_at) <= Get(job.completed_at)
    /\ elapsed_seconds(job, now) >= 0

\* C13: complete_job and fail_job on a job whose started_at is unset set
\* started_at in the same step: the job then has started_at set and not
\* after completed_at, and an elapsed time that is not negative.
C13_BackfillStartedAt ==
    [][\A id \in PairIds :
          /\ \A r \in PairResults :
                (/\ last'.op = "complete_job"
                 /\ id \in DOMAIN jobs
                 /\ jobs[id].started_at = None
                 /\ complete_job(id, r))
                    => StartedBeforeCompleted(jobs'[id], clock')
          /\ \A e \in PairErrors :
                (/\ last'.op = "fail_job"
                 /\ id \in DOMAIN jobs
                 /\ jobs[id].started_at = None
                 /\ fail_job(id, e))
                    => StartedBeforeCompleted(jobs'[id], clock')]_vars

\* A job created at 0 was completed at 1 without ever being started: it
\* is still at the 'started' reading that complete_job gave it.
C13_Witness ==
    /\ last.op = "complete_job"
    /\ last.id \in DOMAIN jobs
    /\ jobs[last.id].created_at = 0
    /\ jobs[last.id].started_at = Some(1)
    /\ jobs[last.id].completed_at = Some(1)
    /\ jobs[last.id].status = COMPLETED

\* C14: started_at is written once: a PENDING job has none, and once it is
\* set no step changes it while the job is in the registry.
C14_StartedAtWrittenOnce ==
    /\ [](\A k \in DOMAIN jobs :
            jobs[k].status = PENDING => jobs[k].started_at = None)
    /\ [][\A k \in Kept :
            IsSet(jobs[k].started_at)
                => jobs'[k].started_at = jobs[k].started_at]_vars

\* C15: completed_at is unset until the step that makes the job COMPLETED
\* or FAILED, that step sets it, and from then on no step changes it or
\* the job's elapsed_seconds while the job is in the registry.
C15_CompletedAtFrozen ==
    /\ [](\A k \in DOMAIN jobs :
            /\ jobs[k].status = PENDING => jobs[k].completed_at = None
            /\ jobs[k].status \in Terminal => IsSet(jobs[k].completed_at))
    /\ [][\A k \in Kept :
            IF IsSet(jobs[k].completed_at)
            THEN /\ jobs'[k].completed_at = jobs[k].completed_at
                 /\ elapsed_seconds(jobs'[k], clock')
                        = elapsed_seconds(jobs[k], clock)
            ELSE IsSet(jobs'[k].completed_at)
                    => jobs'[k].status \in Terminal]_vars

----------------------------------------------------------------------------
\* The properties of store calls running at the same time.

\* The threads whose create_job(id, ...) has returned the job.
Created(id) ==
    {t \in Threads : /\ threads[t].op = "create_job"
                     /\ threads[t].job_id = id
                     /\ threads[t].outcome = "returned"}

\* The threads that are in create_job(id, ...) or through with it.
Creating(id) ==
    {t \in Threads : threads[t].op = "create_job" /\ threads[t].job_id = id}

\* C16: with create_job running in several threads on a store that was
\* empty, in every interleaving: a call with a valid id returns or raises
\* KeyError, never anything else; for each id at most one call returns,
\* and exactly one once all calls with the id are through; the registry
\* holds under each id the very job that call built, one job for each
\* distinct valid id requested, and len(store) is their number.
C16_ConcurrentCreate ==
    /\ \A t \in Threads :
          (threads[t].pc = "done" /\ is_safe_job_id(threads[t].job_id))
              => threads[t].outcome \in {"returned", "KeyError"}
    /\ \A id \in ThreadIds :
          /\ Cardinality(Created(id)) <= 1
          /\ (/\ Creating(id) # {}
              /\ is_safe_job_id(id)
              /\ \A t \in Creating(id) : threads[t].pc = "done")
                 => Cardinality(Created(id)) = 1
          /\ \A t \in Created(id) :
                id \in DOMAIN jobs /\ jobs[id] = Get(threads[t].job)
    /\ DOMAIN jobs = {id \in ThreadIds : Created(id) # {}}
    /\ len_store(jobs) =
          Cardinality({t \in Threads : threads[t].outcome = "returned"})

\* Three calls are through: two with one id, built at different clock
\* readings, of which the later-built one returned and the other raised
\* KeyError, and one with another id; the store holds two jobs.
C16_Witness ==
    /\ \A t \in Threads : threads[t].pc = "done"
    /\ \E t1, t2 \in Threads :
          /\ threads[t1].job_id = threads[t2].job_id
          /\ threads[t1].outcome = "returned"
          /\ threads[t2].outcome = "KeyError"
          /\ Get(threads[t1].job).created_at > Get(threads[t2].job).created_at
    /\ len_store(jobs) = 2

\* The calls of update_progress on job k that have been submitted, as
\* the pairs they store.
Submitted(k) ==
    {<<Clamp(threads[t].progress), threads[t].message>> :
        t \in {u \in Threads : /\ threads[u].op = "update_progress"
                               /\ threads[u].job_id = k}}

\* The thread inside update_progress has written progress, not yet the
\* message.
MidUpdate(k) ==
    \E t \in Threads :
        threads[t].pc = "wrote_progress" /\ threads[t].job_id = k

\* C17: with update_progress running in several threads on one RUNNING
\* job, whenever no call is between its two writes the job's progress and
\* progress_message are those of start_job or the clamped progress and
\* the message of one single submitted call.
C17_ProgressPairOfOneCall ==
    \A k \in DOMAIN jobs :
        (jobs[k].status = RUNNING /\ ~MidUpdate(k))
            => \/ <<jobs[k].progress, jobs[k].progress_message>>
                     = <<5, "Starting inference...">>
               \/ <<jobs[k].progress, jobs[k].progress_message>>
                     \in Submitted(k)

\* Three calls with different arguments on the RUNNING job are through:
\* the job shows 100 and 'loading', the pair of the call given 150, while
\* another call had submitted 40 with 'running' and a third 40 with
\* 'loading'.
C17_Witness ==
    /\ \A t \in Threads : threads[t].pc = "done"
    /\ IdA \in DOMAIN jobs
    /\ jobs[IdA].status = RUNNING
    /\ <<jobs[IdA].progress, jobs[IdA].progress_message>> = <<100, "loading">>
    /\ Submitted(IdA) =
          {<<100, "loading">>, <<40, "running">>, <<40, "loading">>}

----------------------------------------------------------------------------
\* The properties of cleanup_old_jobs.

----------------------------------------------------------------------------
\* The properties of the status query.

\* C19: GET /jobs/{id} answers 404 exactly when the id is not in the
\* registry; otherwise it answers 200 with the job's status by its
\* lowercase name, elapsedSeconds exactly when started_at is set, a result
\* exactly when the status is completed and an error exactly when the
\* status is failed.
C19_StatusProjection ==
    /\ [][/\ (poll'.pc # poll.pc /\ poll.pc \in {"idle", "done"})
               => (poll'.resp.code = 404 <=> poll'.job_id \notin DOMAIN jobs)
          /\ (poll.pc = "found" /\ poll'.pc = "built")
               => /\ poll'.resp.status = jobs[poll.job_id].status
                  /\ IsSet(poll'.resp.elapsedSeconds)
                       <=> IsSet(jobs[poll.job_id].started_at)]_vars
    /\ [](poll.pc = "done"
            => \/ poll.resp.code = 404 /\ poll.resp.status = ""
               \/ /\ poll.resp.code = 200
                  /\ poll.resp.status
                        \in {"pending", "running", "completed", "failed"}
                  /\ IsSet(poll.resp.result) <=> poll.resp.status = "completed"
                  /\ IsSet(poll.resp.error) <=> poll.resp.status = "failed")

----------------------------------------------------------------------------
\* The properties of the cleanup scheduler.

\* The loop threads that have not exited.
Alive == {i \in DOMAIN sched.loops : sched.loops[i] # "exited"}

\* After stop_cleanup_scheduler has set the shutdown event, no loop
\* thread begins a pass.
C20_NoNewPass ==
    [][\A i \in DOMAIN sched.loops :
          (sched.shutdown /\ sched.loops[i] = "waiting")
              => sched'.loops[i] # "pass"]_vars

\* After stop_cleanup_scheduler was called every loop thread exits.
C20_LoopTerminates == sched.shutdown ~> (Alive = {})

\* stop_cleanup_scheduler returns from its join only when the thread it
\* joined has exited or the timeout has elapsed.
C20_StopWaits ==
    [][(sched.stop.pc = "joining" /\ sched'.stop.pc = "idle")
          => \/ sched.loops[sched.stop.target] = "exited"
             \/ sched'.stop.timed_out]_vars

\* A stop_cleanup_scheduler call that finds no cleanup thread, because
\* none was started or an earlier stop has cleared it, leaves the
\* scheduler state as it was.
C20_StopWithoutThread ==
    [][(/\ sched.stop.pc = "idle"
        /\ sched'.stop.pc = "set"
        /\ sched.cleanup_thread = None)
          => /\ sched'.shutdown = sched.shutdown
             /\ sched'.loops = sched.loops
             /\ sched'.cleanup_thread = sched.cleanup_thread]_vars

\* C20: after stop_cleanup_scheduler is called the loop starts no new
\* pass and its thread exits in the end; stop returns only when the thread
\* has exited or the join timeout has elapsed; and a stop that is called
\* again, or without a start before it, changes nothing.
C20_StopScheduler ==
    /\ C20_NoNewPass
    /\ C20_LoopTerminates
    /\ C20_StopWaits
    /\ C20_StopWithoutThread

\* C23: the set of ids of the registry changes in two ways only: a
\* create_job that returns adds its new id and nothing else, and
\* cleanup_old_jobs takes away the expired ids and nothing else; start_job,
\* update_progress, complete_job and fail_job leave the set as it is, and
\* with an id the registry does not hold they change nothing and raise
\* nothing.
C23_RegistryFrame ==
    [][/\ (DOMAIN jobs' # DOMAIN jobs) =>
            \/ /\ last'.op = "create_job"
               /\ last'.raised = "none"
               /\ last'.id \notin DOMAIN jobs
               /\ DOMAIN jobs' = DOMAIN jobs \cup {last'.id}
            \/ /\ last'.op = "cleanup_old_jobs"
               /\ DOMAIN jobs' = DOMAIN jobs \ expired_ids(jobs, clock, ttl)
       /\ (last'.op \in {"start_job", "update_progress", "complete_job", "fail_job"})
            => /\ DOMAIN jobs' = DOMAIN jobs
               /\ last'.id \notin DOMAIN jobs
                    => jobs' = jobs /\ last'.raised = "none"
       /\ \A id \in PairIds :
            (id \notin DOMAIN jobs /\ start_job(id))
                => jobs' = jobs /\ last'.raised = "none"
      ]_vars

\* start_job was the last call, with an id the registry does not hold,
\* while it holds the job of the other id, finished earlier.
C23_Witness ==
    /\ last.op = "start_job"
    /\ last.id = IdA
    /\ last.raised = "none"
    /\ DOMAIN jobs = {IdB}
    /\ jobs[IdB].status = FAILED

\* C28: a job with completed_at set has started_at set, at or before
\* completed_at, and its elapsed time is not negative, whatever the order
\* of the calls of start_job, complete_job and fail_job.
C28_StartedBeforeCompleted ==
    \A k \in DOMAIN jobs :
        IsSet(jobs[k].completed_at) =>
            /\ IsSet(jobs[k].started_at)
            /\ Get(jobs[k].started_at) <= Get(jobs[k].completed_at)
            /\ \A now \in Get(jobs[k].completed_at)..MaxTime :
                  elapsed_seconds(jobs[k], now) >= 0

----------------------------------------------------------------------------
\* The loop threads that are in a pass.
InPass == {i \in DOMAIN sched.loops : sched.loops[i] = "pass"}

\* C21: a store has one cleanup loop at most, and its passes never
\* overlap: whatever the calls of start_cleanup_scheduler and
\* stop_cleanup_scheduler and the threads they come from, a start that
\* finds a loop creates no thread, no two loop threads are alive at a
\* time and no two are in a pass at a time.
C21_OneCleanupLoop ==
    /\ [](Cardinality(Alive) <= 1)
    /\ [](Cardinality(InPass) <= 1)
    /\ [][(Len(sched'.loops) > Len(sched.loops)) => Alive = {}]_vars

\* C22: an exception raised in a pass of the loop is caught there: the
\* thread goes back to its wait; a loop thread ends only from the wait,
\* with the shutdown event set; and a waiting loop thread goes on to
\* another pass unless the event is set.
C22_LoopSurvivesException ==
    /\ [][\A i \in DOMAIN sched.loops :
            /\ sched.loops[i] = "pass" => sched'.loops[i] \in {"pass", "waiting"}
            /\ (sched.loops[i] = "waiting" /\ sched'.loops[i] = "exited")
                  => sched.shutdown]_vars
    /\ \A i \in 1..MaxLoops :
          (/\ i \in DOMAIN sched.loops
           /\ sched.loops[i] = "waiting"
           /\ last.op = "cleanup_old_jobs"
           /\ last.raised # "none")
              ~> (\/ i \in DOMAIN sched.loops /\ sched.loops[i] = "pass"
                  \/ sched.shutdown)

\* The last pass of the only loop thread raised, and the thread is in a
\* pass again; nobody has called stop.
C22_Witness ==
    /\ Len(sched.loops) = 1
    /\ sched.loops[1] = "pass"
    /\ last.op = "cleanup_old_jobs"
    /\ last.raised = "PermissionError"
    /\ ~sched.shutdown

\* Job k was finished at c, more than ttl ago.
Expired(k, c) ==
    /\ k \in DOMAIN jobs
    /\ jobs[k].completed_at = Some(c)
    /\ clock - c > ttl

\* C26: while a cleanup loop is running and has not been told to stop, a
\* job finished more than ttl ago is removed from the registry in the
\* end, unless it is finished anew or the scheduler is stopped first.
C26_ExpiredJobsRemoved ==
    \A k \in {IdA}, c \in 0..MaxPairTime :
        (Expired(k, c) /\ Alive # {} /\ ~sched.shutdown)
            ~> (\/ k \notin DOMAIN jobs
                \/ jobs[k].completed_at # Some(c)
                \/ sched.shutdown)

\* The loop has removed the job in a pass that returned 1, and nobody has
\* called stop.
C26_Witness ==
    /\ last.op = "cleanup_old_jobs"
    /\ last.ret = 1
    /\ jobs = <<>>
    /\ Alive # {}
    /\ ~sched.shutdown

\* C30: a loop thread that start_cleanup_scheduler creates when no stop
\* is under way finds the shutdown event clear, also after an earlier
\* stop, so that its first wait ends in a pass and not in its exit.
C30_RestartRuns ==
    [][(Len(sched'.loops) > Len(sched.loops) /\ sched.stop.pc = "idle")
          => ~sched'.shutdown]_vars

\* C25: a step of cleanup_old_jobs that deletes a directory deletes the
\* directory of an id that this pass removed from the registry, that is
\* made of letters, digits, hyphens and underscores only, and whose path
\* resolves to a directory right below the results directory.
C25_DeletesOnlyRemovedSafeIds ==
    [][\A id \in disk \ disk' :
          /\ sweep.pc = "files"
          /\ id \in sweep.expired
          /\ OnlySafeChars(id)
          /\ is_relative_to_base(id)
          /\ Resolve(SplitPath(id), 0) = 1]_vars

\* C29: a step of cleanup_old_jobs that deletes a directory deletes the
\* directory of an id that is not in the registry at that step, also when
\* create_job put the id back after the pass had removed it.
C29_NoDeletionOfLiveJob ==
    [][\A id \in disk \ disk' :
          OnlySafeChars(id) => id \notin DOMAIN jobs]_vars

----------------------------------------------------------------------------
\* The properties of the background task.

\* C24: a background task whose job is in the store comes to its end, and
\* at its end the job is COMPLETED with the result of the task, or FAILED
\* with the error 'Segmentation failed' when the pipeline or the building
\* of the result raised; the job of a finished task is never PENDING or
\* RUNNING.
C24_TaskEndsTerminal ==
    /\ [](\A id \in DOMAIN tasks :
            (tasks[id] = "done" /\ id \in DOMAIN jobs) =>
                /\ jobs[id].status \in Terminal
                /\ jobs[id].status = COMPLETED
                      => jobs[id].result \in {Some(r) : r \in Results}
                /\ jobs[id].status = FAILED
                      => jobs[id].error = Some("Segmentation failed"))
    /\ [][\A id \in DOMAIN tasks :
            /\ (tasks[id] = "complete" /\ tasks'[id] = "done")
                  => jobs'[id].status = COMPLETED
            /\ (tasks[id] = "fail" /\ tasks'[id] = "done")
                  => jobs'[id].status = FAILED /\ jobs'[id].result = None
          ]_vars
    /\ \A id \in UuidPool :
          (id \in DOMAIN tasks /\ id \in DOMAIN jobs)
              ~> (/\ id \in DOMAIN tasks
                  /\ tasks[id] = "done"
                  /\ id \in DOMAIN jobs
                  /\ jobs[id].status \in Terminal)

\* A task has ended after its pipeline raised: its job is FAILED with the
\* progress of the call before the pipeline.
C24_Witness ==
    \E id \in DOMAIN tasks :
        /\ tasks[id] = "done"
        /\ id \in DOMAIN jobs
        /\ jobs[id].status = FAILED
        /\ jobs[id].error = Some("Segmentation failed")
        /\ jobs[id].progress = 30

\* C27: under the handler and its tasks the progress of a job never goes
\* down: it takes the values 0, 5, 10, 20, 30, 85, 95, 100, each change
\* going to the next of them, it is 100 when the job is COMPLETED, and the
\* step that makes the job FAILED leaves it as it was.
C27_ProgressNeverDecreases ==
    [][\A k \in DOMAIN jobs :
          LET order == <<0, 5, 10, 20, 30, 85, 95, 100>>
              old == jobs[k].progress
              new == jobs'[k].progress
          IN /\ k \in DOMAIN jobs'
             /\ new >= old
             /\ \E n \in DOMAIN order :
                   /\ order[n] = old
                   /\ new = old \/ (n < Len(order) /\ new = order[n + 1])
             /\ jobs'[k].status = COMPLETED => new = 100
             /\ jobs'[k].status = FAILED => new = old
      ]_vars

\* A job that went through every progress call has FAILED while its
\* result was built, and its progress is still 95.
C27_Witness ==
    \E k \in DOMAIN jobs :
        /\ jobs[k].status = FAILED
        /\ jobs[k].progress = 95
        /\ k \in DOMAIN tasks
        /\ tasks[k] = "done"

----------------------------------------------------------------------------
\* The properties of the request handler.

\* The PENDING and RUNNING jobs of the registry.
Active == {k \in DOMAIN jobs : jobs[k].status \in {PENDING, RUNNING}}

\* C4: a request whose admission check finds as many active jobs as the
\* limit, or more, is answered 503 there and then: the step creates no job
\* and queues no task, and the request never does either afterwards.
C4_BusyRejected ==
    /\ [][\A r \in Requests :
            /\ (/\ req[r].pc = "new"
                /\ req'[r].pc # "new"
                /\ Cardinality(Active) >= limit)
                   => /\ req'[r] = [pc |-> "done", job |-> <<>>, resp |-> 503]
                      /\ jobs' = jobs
                      /\ tasks' = tasks
            /\ req[r].pc = "done" => req'[r] = req[r]]_vars
    /\ [](\A r \in Requests :
            req[r].resp = 503 => req[r].job = <<>> /\ req[r].pc = "done")

\* A request was turned away while the other one's job is active, and the
\* registry and the task list hold that one job only.
C4_Witness ==
    \E r \in Requests :
        /\ req[r].resp = 503
        /\ Cardinality(Active) = limit
        /\ DOMAIN jobs = DOMAIN tasks
        /\ Cardinality(DOMAIN jobs) = limit

\* C5: every request passes the admission check only on a count of active
\* jobs below the limit, but creates its job later without looking again,
\* whatever the count is by then; so the active jobs can outnumber the
\* limit (C5_Witness).
C5_CheckThenCreate ==
    [][\A r \in Requests :
          /\ (req[r].pc = "new" /\ req'[r].pc = "admitted")
                => Cardinality(Active) < limit
          /\ (req[r].pc = "admitted" /\ req'[r].resp = 202)
                => /\ req'[r].job \in DOMAIN jobs' \ DOMAIN jobs
                   /\ jobs'[req'[r].job].status = PENDING]_vars

\* Both requests passed the check before either created its job: more
\* active jobs than the limit allows.
C5_Witness ==
    /\ Cardinality(Active) > limit
    /\ \A r \in Requests : req[r].resp = 202

====
